---- MODULE Spec2Model ----
(***************************************************************************)
(* A model of the income and expense tracker of                            *)
(* src/expense_tracker_enhanced.py: one IncomeExpenseTracker constructed   *)
(* from its data file and driven by the menu loop of run().                *)
(*                                                                         *)
(* Representation.                                                         *)
(*  - A Python str is a sequence of one-character strings; a character     *)
(*    outside ASCII is written by its code point ("U+20AC").               *)
(*  - A Python float is a record [k, v]: k = "fin" with v the value in     *)
(*    thousandths (so 1.01 is 1010), k = "nan", or k = "inf" with v the    *)
(*    sign.  Arithmetic and comparisons follow IEEE 754 on these three     *)
(*    kinds; the binary rounding error of finite sums is not modelled.     *)
(*  - A timestamp '%Y-%m-%d %H:%M:%S' is the tuple <<Y, m, d>> (the time   *)
(*    of day is never read by the modelled code), '%Y-%m' is <<Y, m>>.     *)
(*  - The data file is a record [kind, doc]; doc is the JSON document it   *)
(*    holds when kind = "json".                                            *)
(***************************************************************************)
EXTENDS Integers, Sequences, FiniteSets, TLC

VARIABLES
    file,            \* the content of data_file on disk
    file0,           \* the content of data_file when the process started
    pc,              \* where the process is: "menu", "set_currency", "pause", "exited", "crashed"
    expenses,        \* self.expenses
    monthly_income,  \* self.monthly_income
    currency,        \* self.currency
    now,             \* the wall clock, an index into Instants
    last             \* the most recent call: [op, arg, ret]

vars == <<file, file0, pc, expenses, monthly_income, currency, now, last>>

\* The longest ledger the model explores.
MaxRecords == 2

----------------------------------------------------------------------------
(* Python str *)

LowerCase == <<"a","b","c","d","e","f","g","h","i","j","k","l","m",
               "n","o","p","q","r","s","t","u","v","w","x","y","z">>
UpperCase == <<"A","B","C","D","E","F","G","H","I","J","K","L","M",
               "N","O","P","Q","R","S","T","U","V","W","X","Y","Z">>

Range(s) == {s[i] : i \in DOMAIN s}

IndexIn(c, alphabet) == CHOOSE i \in DOMAIN alphabet : alphabet[i] = c

IsLower(c) == c \in Range(LowerCase)
IsUpper(c) == c \in Range(UpperCase)
IsCased(c) == IsLower(c) \/ IsUpper(c)
IsSpace(c) == c = " "

ToUpper(c) == IF IsLower(c) THEN UpperCase[IndexIn(c, LowerCase)] ELSE c
ToLower(c) == IF IsUpper(c) THEN LowerCase[IndexIn(c, UpperCase)] ELSE c

\* str.upper(), str.lower()
upper(s) == [i \in DOMAIN s |-> ToUpper(s[i])]
lower(s) == [i \in DOMAIN s |-> ToLower(s[i])]

\* str.title(): a cased character is upper-cased at the start of a word
\* (after an uncased character) and lower-cased inside one.
title(s) ==
    [i \in DOMAIN s |->
        IF i > 1 /\ IsCased(s[i - 1]) THEN ToLower(s[i]) ELSE ToUpper(s[i])]

RECURSIVE lstrip(_)
lstrip(s) == IF s # <<>> /\ IsSpace(Head(s)) THEN lstrip(Tail(s)) ELSE s

RECURSIVE rstrip(_)
rstrip(s) ==
    IF s # <<>> /\ IsSpace(s[Len(s)]) THEN rstrip(SubSeq(s, 1, Len(s) - 1)) ELSE s

\* str.strip()
strip(s) == rstrip(lstrip(s))

\* str.startswith(prefix), also used for the timestamp tuples
startswith(s, prefix) ==
    Len(prefix) <= Len(s) /\ SubSeq(s, 1, Len(prefix)) = prefix

\* the operator `sub in s` of two str
contains(s, sub) ==
    \E i \in 0..(Len(s) - Len(sub)) : SubSeq(s, i + 1, i + Len(sub)) = sub

----------------------------------------------------------------------------
(* Python float *)

Fin(v) == [k |-> "fin", v |-> v]
NaN == [k |-> "nan", v |-> 0]
Inf(sign) == [k |-> "inf", v |-> sign]
Zero == Fin(0)

IsNaN(a) == a.k = "nan"

FNeg(a) == IF a.k = "nan" THEN a ELSE [k |-> a.k, v |-> 0 - a.v]

FAdd(a, b) ==
    CASE IsNaN(a) \/ IsNaN(b) -> NaN
      [] a.k = "inf" /\ b.k = "inf" -> IF a.v = b.v THEN a ELSE NaN
      [] a.k = "inf" -> a
      [] b.k = "inf" -> b
      [] OTHER -> Fin(a.v + b.v)

FSub(a, b) == FAdd(a, FNeg(b))

\* a * n for a positive int n
FMulInt(a, n) == IF a.k = "fin" THEN Fin(a.v * n) ELSE a

\* a < b; every comparison with nan is False
FLt(a, b) ==
    CASE IsNaN(a) \/ IsNaN(b) -> FALSE
      [] a.k = "inf" /\ b.k = "inf" -> a.v < b.v
      [] a.k = "inf" -> a.v < 0
      [] b.k = "inf" -> b.v > 0
      [] OTHER -> a.v < b.v

FGt(a, b) == FLt(b, a)
FEq(a, b) == ~IsNaN(a) /\ ~IsNaN(b) /\ a = b
FLe(a, b) == FLt(a, b) \/ FEq(a, b)

\* max(a, b) of the builtins: the first argument unless the second is greater
max(a, b) == IF FGt(b, a) THEN b ELSE a

\* round(a, 2): to the nearest hundredth.  A value exactly half way between
\* two hundredths rounds by the binary value of the float; no modelled input
\* is one.
round2(a) ==
    IF a.k = "fin" THEN Fin(((a.v + 5) \div 10) * 10) ELSE a

\* float(s) on the texts the model enters at the prompts; err stands for the
\* ValueError float() raises.
float(s) ==
    CASE s = <<"n","a","n">> -> [err |-> FALSE, val |-> NaN]
      [] s = <<"i","n","f">> -> [err |-> FALSE, val |-> Inf(1)]
      [] s = <<"-","5">> -> [err |-> FALSE, val |-> Fin(-5000)]
      [] s = <<"0">> -> [err |-> FALSE, val |-> Fin(0)]
      [] s = <<"0",".","0","0","4">> -> [err |-> FALSE, val |-> Fin(4)]
      [] s = <<"1",".","0","0","6">> -> [err |-> FALSE, val |-> Fin(1006)]
      [] s = <<"2",".","4","9","4">> -> [err |-> FALSE, val |-> Fin(2494)]
      [] OTHER -> [err |-> TRUE, val |-> NaN]

----------------------------------------------------------------------------
(* The clock *)

\* The instants datetime.now() passes through during a run: the last day of
\* one month and the first day of the next.
Instants == << <<2024, 12, 31>>, <<2025, 1, 1>> >>

\* datetime.now().strftime('%Y-%m-%d %H:%M:%S')
Timestamp == Instants[now]

\* datetime.now().strftime('%Y-%m')
CurrentMonth == SubSeq(Instants[now], 1, 2)

----------------------------------------------------------------------------
(* Currency symbols *)

currency_symbols ==
    { << <<"U","S","D">>, <<"$">> >>,          << <<"E","U","R">>, <<"U+20AC">> >>,
      << <<"G","B","P">>, <<"U+00A3">> >>,     << <<"J","P","Y">>, <<"U+00A5">> >>,
      << <<"C","A","D">>, <<"C","$">> >>,      << <<"A","U","D">>, <<"A","$">> >>,
      << <<"C","H","F">>, <<"F","r">> >>,      << <<"C","N","Y">>, <<"U+00A5">> >>,
      << <<"I","N","R">>, <<"U+20B9">> >>,     << <<"B","R","L">>, <<"R","$">> >>,
      << <<"R","U","B">>, <<"U+20BD">> >>,     << <<"K","R","W">>, <<"U+20A9">> >>,
      << <<"S","E","K">>, <<"k","r">> >>,      << <<"N","O","K">>, <<"k","r">> >>,
      << <<"D","K","K">>, <<"k","r">> >>,      << <<"P","L","N">>, <<"z","U+0142">> >>,
      << <<"C","Z","K">>, <<"K","U+010D">> >>, << <<"H","U","F">>, <<"F","t">> >>,
      << <<"B","G","N">>, <<"U+043B","U+0432">> >>,
      << <<"R","O","N">>, <<"l","e","i">> >> }

KnownCurrencies == {e[1] : e \in currency_symbols}

\* self.currency_symbols.get(code, code + ' ')
SymbolOf(code) ==
    IF code \in KnownCurrencies
    THEN (CHOOSE e \in currency_symbols : e[1] = code)[2]
    ELSE code \o <<" ">>

get_currency_symbol == SymbolOf(currency)

----------------------------------------------------------------------------
(* Persistence: the JSON document of the data file *)

USD == <<"U","S","D">>

\* json.dump of a float: its repr, or the token NaN, Infinity, -Infinity
DumpFloat(x) ==
    CASE x.k = "nan" -> [t |-> "num", tok |-> "NaN", v |-> 0]
      [] x.k = "inf" /\ x.v > 0 -> [t |-> "num", tok |-> "Infinity", v |-> 0]
      [] x.k = "inf" -> [t |-> "num", tok |-> "-Infinity", v |-> 0]
      [] OTHER -> [t |-> "num", tok |-> "repr", v |-> x.v]

\* json.load of a number token
LoadFloat(j) ==
    CASE j.tok = "NaN" -> NaN
      [] j.tok = "Infinity" -> Inf(1)
      [] j.tok = "-Infinity" -> Inf(-1)
      [] OTHER -> Fin(j.v)

DumpStr(s) == [t |-> "str", s |-> s]
LoadStr(j) == j.s

DumpExpense(e) ==
    [t |-> "obj",
     m |-> [amount |-> DumpFloat(e.amount), category |-> DumpStr(e.category),
            description |-> DumpStr(e.description), date |-> DumpStr(e.date)]]

LoadExpense(j) ==
    [amount |-> LoadFloat(j.m.amount), category |-> LoadStr(j.m.category),
     description |-> LoadStr(j.m.description), date |-> LoadStr(j.m.date)]

DumpList(l) == [t |-> "arr", a |-> [i \in 1..Len(l) |-> DumpExpense(l[i])]]
LoadList(j) == [i \in 1..Len(j.a) |-> LoadExpense(j.a[i])]

\* A dict of save_data that leaves the currency out
DumpData_NoCurrency(exps, income, cur) ==
    [t |-> "obj",
     m |-> [expenses |-> DumpList(exps), monthly_income |-> DumpFloat(income)]]

\* json.dump(self.data, file, indent=2) of the dict save_data builds
DumpData(exps, income, cur) ==
    [t |-> "obj",
     m |-> [expenses |-> DumpList(exps), monthly_income |-> DumpFloat(income),
            currency |-> DumpStr(cur)]]

NoDoc == [t |-> "null"]
EmptyObject == [t |-> "obj", m |-> <<>>]

\* What the data file may hold when the process starts: nothing (no file), a
\* file open() cannot read, text that is not JSON, JSON that is not an
\* object, and a ledger written by another hand, whose currency code is not
\* one of currency_symbols.
ForeignLedger ==
    DumpData(<< [amount |-> Fin(1010), category |-> <<"F","o","o","d">>,
                 description |-> <<"d">>, date |-> <<2024, 12, 31>>] >>,
             Fin(2490), <<"X","Y","Z">>)

StartFiles ==
    { [kind |-> "missing", doc |-> NoDoc],
      [kind |-> "unreadable", doc |-> NoDoc],
      [kind |-> "garbage", doc |-> NoDoc],
      [kind |-> "json", doc |-> [t |-> "arr", a |-> <<>>]],
      [kind |-> "json", doc |-> ForeignLedger] }

\* load_data: [err, data].  os.path.exists guards a missing file and the
\* except clause catches JSONDecodeError and FileNotFoundError; any other
\* exception of open() or json.load() leaves the method.
load_data(f) ==
    CASE f.kind = "missing" -> [err |-> "none", data |-> EmptyObject]
      [] f.kind = "garbage" -> [err |-> "none", data |-> EmptyObject]
      [] f.kind = "unreadable" -> [err |-> "PermissionError", data |-> NoDoc]
      [] OTHER -> [err |-> "none", data |-> f.doc]

\* self.data.get(key, default) on a loaded JSON object
Get(data, key, default) ==
    IF key \in DOMAIN data.m THEN data.m[key] ELSE default

\* __init__: [err, expenses, monthly_income, currency].  self.data.get raises
\* AttributeError when the loaded document is not an object.
Construct(f) ==
    LET loaded == load_data(f) IN
    CASE loaded.err # "none" ->
            [err |-> loaded.err, expenses |-> <<>>, monthly_income |-> Zero,
             currency |-> USD]
      [] loaded.data.t # "obj" ->
            [err |-> "AttributeError", expenses |-> <<>>, monthly_income |-> Zero,
             currency |-> USD]
      [] OTHER ->
            [err |-> "none",
             expenses |-> LoadList(Get(loaded.data, "expenses", DumpList(<<>>))),
             monthly_income |-> LoadFloat(Get(loaded.data, "monthly_income", DumpFloat(Zero))),
             currency |-> LoadStr(Get(loaded.data, "currency", DumpStr(USD)))]

NoCall == [op |-> "none", arg |-> <<>>, ret |-> <<>>]

\* main(): the tracker is constructed outside the try block, so an exception
\* of the constructor ends the process.
Init ==
    /\ file0 \in StartFiles
    /\ file = file0
    /\ now = 1
    /\ LET c == Construct(file0) IN
        /\ pc = IF c.err = "none" THEN "menu" ELSE "crashed"
        /\ expenses = c.expenses
        /\ monthly_income = c.monthly_income
        /\ currency = c.currency
        /\ last = [op |-> "__init__", arg |-> <<>>, ret |-> c.err]

----------------------------------------------------------------------------
(* Queries and aggregation *)

\* sum(expense['amount'] for expense in expenses_list): a left fold from 0
RECURSIVE SumFrom(_, _)
SumFrom(acc, l) ==
    IF l = <<>> THEN acc ELSE SumFrom(FAdd(acc, Head(l).amount), Tail(l))

total_expenses(expenses_list) == SumFrom(Zero, expenses_list)

\* [expense for expense in l if Keep(expense)]
Filter(l, Keep(_)) == SelectSeq(l, Keep)

filter_expenses_by_category(category) ==
    LET category_lower == lower(category)
        Keep(e) == lower(e.category) = category_lower
    IN Filter(expenses, Keep)

search_expenses(keyword) ==
    LET keyword_lower == lower(keyword)
        Keep(e) == \/ contains(lower(e.category), keyword_lower)
                   \/ contains(lower(e.description), keyword_lower)
    IN Filter(expenses, Keep)

get_monthly_expenses ==
    LET Keep(e) == startswith(e.date, CurrentMonth) IN Filter(expenses, Keep)

\* calculate_financial_summary without the filter on the current month
calculate_financial_summary_AllMonths ==
    LET total == total_expenses(expenses)
        monthly == total_expenses(expenses)
        net_balance == FSub(monthly_income, monthly)
    IN [total_expenses |-> total,
        monthly_expenses |-> monthly,
        net_balance |-> net_balance,
        required_income |-> total,
        additional_income_needed |-> max(Zero, FSub(monthly, monthly_income)),
        monthly_savings |-> max(Zero, net_balance)]

calculate_financial_summary ==
    LET total == total_expenses(expenses)
        monthly == total_expenses(get_monthly_expenses)
        net_balance == FSub(monthly_income, monthly)
    IN [total_expenses |-> total,
        monthly_expenses |-> monthly,
        net_balance |-> net_balance,
        required_income |-> total,
        additional_income_needed |-> max(Zero, FSub(monthly, monthly_income)),
        monthly_savings |-> max(Zero, net_balance)]

\* (monthly_savings / monthly_income) * 100: "ZeroDivisionError" when the
\* divisor is 0.0, else whether the rate is below 20.
SavingsRate(savings, income) ==
    CASE FEq(income, Zero) -> [err |-> "ZeroDivisionError", low |-> FALSE]
      [] IsNaN(savings) \/ IsNaN(income) -> [err |-> "none", low |-> FALSE]
      [] savings.k = "inf" /\ income.k = "inf" -> [err |-> "none", low |-> FALSE]
      [] savings.k = "inf" -> [err |-> "none", low |-> (savings.v > 0) # (income.v > 0)]
      [] income.k = "inf" -> [err |-> "none", low |-> TRUE]
      [] income.v > 0 -> [err |-> "none", low |-> savings.v * 100 < 20 * income.v]
      [] OTHER -> [err |-> "none", low |-> savings.v * 100 > 20 * income.v]

\* The recommendations of show_financial_dashboard: the branch of the
\* if/elif on net_balance and monthly_savings, the savings-rate advice, the
\* annual-deficit line, and the exception the division raises, if any.
Recommendations(summary) ==
    LET overspending == FLt(summary.net_balance, Zero)
        saving == ~overspending /\ FGt(summary.monthly_savings, Zero)
        rate == IF saving THEN SavingsRate(summary.monthly_savings, monthly_income)
                ELSE [err |-> "none", low |-> FALSE]
    IN [branch |-> IF overspending THEN "overspending"
                   ELSE IF saving THEN "savings" ELSE "neither",
        low_rate |-> rate.low,
        annual_deficit |-> rate.err = "none"
                           /\ FGt(summary.total_expenses, FMulInt(monthly_income, 12)),
        err |-> rate.err]

\* category_totals of get_category_summary: (category, total) pairs in the
\* order in which the categories first appear in the ledger.
RECURSIVE CategoryTotals(_, _)
CategoryTotals(acc, l) ==
    IF l = <<>> THEN acc
    ELSE LET e == Head(l)
             at == {i \in DOMAIN acc : acc[i][1] = e.category}
         IN CategoryTotals(
                IF at = {} THEN Append(acc, <<e.category, FAdd(Zero, e.amount)>>)
                ELSE [i \in DOMAIN acc |->
                        IF i \in at THEN <<acc[i][1], FAdd(acc[i][2], e.amount)>>
                        ELSE acc[i]],
                Tail(l))

\* sorted(items, key=lambda x: x[1]) without reverse=True: ascending
RECURSIVE StableAsc(_, _)
StableAsc(done, items) ==
    IF items = <<>> THEN done
    ELSE LET x == Head(items)
             before == {i \in DOMAIN done : ~FLt(x[2], done[i][2])}
             n == Cardinality(before)
         IN StableAsc(SubSeq(done, 1, n) \o <<x>> \o SubSeq(done, n + 1, Len(done)),
                      Tail(items))

\* sorted(items, key=lambda x: x[1], reverse=True) when the keys are totally
\* ordered: the sort is stable, so an item goes after every item that is
\* not smaller.
RECURSIVE StableDesc(_, _)
StableDesc(done, items) ==
    IF items = <<>> THEN done
    ELSE LET x == Head(items)
             before == {i \in DOMAIN done : ~FLt(done[i][2], x[2])}
             n == Cardinality(before)
         IN StableDesc(SubSeq(done, 1, n) \o <<x>> \o SubSeq(done, n + 1, Len(done)),
                       Tail(items))

Arrangements(items) ==
    {[i \in DOMAIN items |-> items[p[i]]] :
        p \in {q \in [DOMAIN items -> DOMAIN items] :
                 \A i, j \in DOMAIN items : q[i] = q[j] => i = j}}

\* The results sorted() may give.  With a nan among the keys the comparisons
\* are not an order and the result depends on the sort's internals: any
\* arrangement of the items.
SortedByAmountDesc(items) ==
    IF \E i \in DOMAIN items : IsNaN(items[i][2])
    THEN Arrangements(items)
    ELSE {StableDesc(<<>>, items)}

\* monthly_totals of get_monthly_breakdown, keyed by date_str[:7]
RECURSIVE MonthlyTotals(_, _)
MonthlyTotals(acc, l) ==
    IF l = <<>> THEN acc
    ELSE LET e == Head(l)
             month == SubSeq(e.date, 1, 2)
             at == {i \in DOMAIN acc : acc[i][1] = month}
         IN MonthlyTotals(
                IF e.date = <<>> THEN acc
                ELSE IF at = {} THEN Append(acc, <<month, FAdd(Zero, e.amount)>>)
                ELSE [i \in DOMAIN acc |->
                        IF i \in at THEN <<acc[i][1], FAdd(acc[i][2], e.amount)>>
                        ELSE acc[i]],
                Tail(l))

\* month keys compare as the str 'YYYY-MM' do
MonthLt(a, b) == a[1] < b[1] \/ (a[1] = b[1] /\ a[2] < b[2])

\* for month in sorted(monthly_totals.keys()): (month, total, income - total)
RECURSIVE MonthRows(_)
MonthRows(totals) ==
    IF totals = <<>> THEN <<>>
    ELSE LET i == CHOOSE i \in DOMAIN totals :
                    \A j \in DOMAIN totals : ~MonthLt(totals[j][1], totals[i][1])
             rest == SubSeq(totals, 1, i - 1) \o SubSeq(totals, i + 1, Len(totals))
         IN << <<totals[i][1], totals[i][2], FSub(monthly_income, totals[i][2])>> >>
            \o MonthRows(rest)

----------------------------------------------------------------------------
(* The texts entered at the prompts *)

Digits == <<"0","1","2","3","4","5","6","7","8","9">>

\* int(s): [err, val]; err stands for the ValueError int() raises
RECURSIVE ParseDigits(_, _)
ParseDigits(acc, s) ==
    IF s = <<>> THEN acc
    ELSE ParseDigits(acc * 10 + (IndexIn(Head(s), Digits) - 1), Tail(s))

int(s) ==
    LET t == strip(s)
        neg == t # <<>> /\ Head(t) = "-"
        body == IF neg THEN Tail(t) ELSE t
    IN IF body = <<>> \/ \E i \in DOMAIN body : body[i] \notin Range(Digits)
       THEN [err |-> TRUE, val |-> 0]
       ELSE [err |-> FALSE,
             val |-> IF neg THEN 0 - ParseDigits(0, body) ELSE ParseDigits(0, body)]

AmountTexts ==
    { <<"a","b","c">>, <<"n","a","n">>, <<"-","5">>, <<"0">>,
      <<"0",".","0","0","4">>, <<"1",".","0","0","6">> }

IncomeTexts ==
    { <<>>, <<"a","b","c">>, <<"n","a","n">>, <<"i","n","f">>, <<"-","5">>,
      <<"0">>, <<"2",".","4","9","4">> }

CategoryTexts == { <<>>, <<" ">>, <<"f","o","o","d">>, <<" ","R","E","N","T">> }

DescriptionTexts == { <<" ","d"," ">> }

KeywordTexts == { <<>>, <<"F","O","O","D">>, <<"D">> }

CurrencyTexts == { <<>>, <<" ","e","u","r">>, <<"x","y","z">> }

NumberTexts ==
    { <<"x">>, <<"-","1">> } \cup { <<Digits[n + 1]>> : n \in 0..(MaxRecords + 1) }

ConfirmTexts == { <<>>, <<"Y">>, <<"y","e","s">>, <<"n">> }

----------------------------------------------------------------------------
(* The methods that change the tracker *)

Call(op, arg, ret) == [op |-> op, arg |-> arg, ret |-> ret]

\* add_expense without the check amount <= 0
add_expense_NoSignCheck(amount, category, description) ==
    LET parsed == float(amount)
        accepted == /\ ~parsed.err
                    /\ strip(category) # <<>>
        expense == [amount |-> round2(parsed.val),
                    category |-> title(strip(category)),
                    description |-> strip(description),
                    date |-> Timestamp]
    IN /\ expenses' = IF accepted THEN Append(expenses, expense) ELSE expenses
       /\ last' = Call("add_expense", <<amount, category, description>>, accepted)
       /\ UNCHANGED <<file, monthly_income, currency>>

\* add_expense that writes the data file after appending
add_expense_AutoSave(amount, category, description) ==
    LET parsed == float(amount)
        accepted == /\ ~parsed.err
                    /\ ~FLe(parsed.val, Zero)
                    /\ strip(category) # <<>>
        expense == [amount |-> round2(parsed.val),
                    category |-> title(strip(category)),
                    description |-> strip(description),
                    date |-> Timestamp]
    IN /\ expenses' = IF accepted THEN Append(expenses, expense) ELSE expenses
       /\ last' = Call("add_expense", <<amount, category, description>>, accepted)
       /\ file' = IF accepted
                  THEN [kind |-> "json",
                        doc |-> DumpData(expenses', monthly_income, currency)]
                  ELSE file
       /\ UNCHANGED <<monthly_income, currency>>

\* add_expense(amount, category, description): returns True or False
add_expense(amount, category, description) ==
    LET parsed == float(amount)
        accepted == /\ ~parsed.err
                    /\ ~FLe(parsed.val, Zero)
                    /\ strip(category) # <<>>
        expense == [amount |-> round2(parsed.val),
                    category |-> title(strip(category)),
                    description |-> strip(description),
                    date |-> Timestamp]
    IN /\ expenses' = IF accepted THEN Append(expenses, expense) ELSE expenses
       /\ last' = Call("add_expense", <<amount, category, description>>, accepted)
       /\ UNCHANGED <<file, monthly_income, currency>>

\* delete_expense without the check 0 <= index: list.pop takes a negative
\* index from the end
delete_expense_NoLowerBound(index) ==
    LET n == Len(expenses)
        ok == index < n /\ 0 - n <= index
        at == IF index < 0 THEN n + index ELSE index
    IN /\ expenses' = IF ok
                      THEN SubSeq(expenses, 1, at) \o SubSeq(expenses, at + 2, n)
                      ELSE expenses
       /\ last' = Call("delete_expense", index, ok)
       /\ UNCHANGED <<file, monthly_income, currency>>

\* delete_expense(index): returns True or False
delete_expense(index) ==
    LET ok == 0 <= index /\ index < Len(expenses) IN
    /\ expenses' = IF ok
                   THEN SubSeq(expenses, 1, index)
                        \o SubSeq(expenses, index + 2, Len(expenses))
                   ELSE expenses
    /\ last' = Call("delete_expense", index, ok)
    /\ UNCHANGED <<file, monthly_income, currency>>

\* set_monthly_income(), new_income being the text read at its prompt
set_monthly_income(new_income) ==
    LET text == strip(new_income)
        parsed == float(text)
        outcome == IF text = <<>> THEN "unchanged"
                   ELSE IF parsed.err THEN "ValueError" ELSE "set"
    IN /\ monthly_income' = IF outcome = "set" THEN round2(parsed.val)
                            ELSE monthly_income
       /\ last' = Call("set_monthly_income", new_income, outcome)
       /\ UNCHANGED <<file, expenses, currency>>

\* set_currency that takes any non-empty code
set_currency_AnyCode(new_currency) ==
    LET code == upper(strip(new_currency))
        outcome == IF code = <<>> THEN "unchanged" ELSE "changed"
    IN /\ currency' = IF outcome = "changed" THEN code ELSE currency
       /\ pc' = "pause"
       /\ last' = Call("set_currency", new_currency, outcome)
       /\ UNCHANGED <<file, expenses, monthly_income>>

\* One turn of the while loop of set_currency(), new_currency being the text
\* read at its prompt: the method returns on an empty text and on a known
\* code, and asks again otherwise.
set_currency(new_currency) ==
    LET code == upper(strip(new_currency))
        outcome == IF code = <<>> THEN "unchanged"
                   ELSE IF code \in KnownCurrencies THEN "changed" ELSE "invalid"
    IN /\ currency' = IF outcome = "changed" THEN code ELSE currency
       /\ pc' = IF outcome = "invalid" THEN "set_currency" ELSE "pause"
       /\ last' = Call("set_currency", new_currency, outcome)
       /\ UNCHANGED <<file, expenses, monthly_income>>

\* save_data(): json.dump into the file opened for writing.  outcome is what
\* the file system does: "saved"; "open failed" (open() raises, the file is
\* as it was); "write failed" (the file was truncated by open() and the dump
\* did not complete).  Every exception is caught and reported.
save_data(outcome) ==
    /\ file' = CASE outcome = "saved" ->
                      [kind |-> "json", doc |-> DumpData(expenses, monthly_income, currency)]
                 [] outcome = "write failed" -> [kind |-> "garbage", doc |-> NoDoc]
                 [] OTHER -> file
    /\ last' = Call("save_data", <<>>, outcome)
    /\ UNCHANGED <<expenses, monthly_income, currency>>

SaveOutcomes == {"saved", "open failed", "write failed"}

----------------------------------------------------------------------------
(* run(): one action for each choice at the menu.  After a choice the loop  *)
(* waits at 'Press Enter to continue...' (pc = "pause"), except where the   *)
(* code says continue or break.                                             *)

Ran(choice, outcome) == Call("run", choice, outcome)

\* choice == '1'
Choice1 ==
    /\ pc = "menu"
    /\ \E text \in IncomeTexts : set_monthly_income(text)
    /\ pc' = "pause"
    /\ UNCHANGED <<file0, now>>

\* choice == '2': the three texts are stripped before the call
Choice2 ==
    /\ pc = "menu"
    /\ \E amount \in AmountTexts, category \in CategoryTexts,
          description \in DescriptionTexts :
            add_expense(strip(amount), strip(category), strip(description))
    /\ Len(expenses') <= MaxRecords
    /\ pc' = "pause"
    /\ UNCHANGED <<file0, now>>

\* choice == '3'
Choice3 ==
    /\ pc = "menu"
    /\ last' = Call("print_expenses", <<>>, total_expenses(expenses))
    /\ pc' = "pause"
    /\ UNCHANGED <<file, file0, expenses, monthly_income, currency, now>>

\* choice == '4'.  An exception of the dashboard leaves run() and is caught
\* in main(), which ends the process.
show_financial_dashboard ==
    LET summary == calculate_financial_summary
        advice == Recommendations(summary)
    IN /\ last' = Call("show_financial_dashboard", <<>>,
                       [summary |-> summary, advice |-> advice])
       /\ pc' = IF advice.err = "none" THEN "pause" ELSE "crashed"
       /\ UNCHANGED <<file, expenses, monthly_income, currency>>

Choice4 ==
    /\ pc = "menu"
    /\ show_financial_dashboard
    /\ UNCHANGED <<file0, now>>

\* choice == '5'
Choice5 ==
    /\ pc = "menu"
    /\ \E text \in CategoryTexts :
        LET category == strip(text) IN
        last' = IF category # <<>>
                THEN Call("filter_expenses_by_category", category,
                          filter_expenses_by_category(category))
                ELSE Ran(<<"5">>, "skipped")
    /\ pc' = "pause"
    /\ UNCHANGED <<file, file0, expenses, monthly_income, currency, now>>

\* choice == '6': the rows printed, in order
get_category_summary ==
    /\ \E rows \in SortedByAmountDesc(CategoryTotals(<<>>, expenses)) :
        last' = Call("get_category_summary", <<>>,
                     IF expenses = <<>> THEN <<>> ELSE rows)
    /\ UNCHANGED <<file, expenses, monthly_income, currency>>

Choice6 ==
    /\ pc = "menu"
    /\ get_category_summary
    /\ pc' = "pause"
    /\ UNCHANGED <<file0, now>>

\* choice == '7'
get_monthly_breakdown ==
    /\ last' = Call("get_monthly_breakdown", <<>>,
                    MonthRows(MonthlyTotals(<<>>, expenses)))
    /\ UNCHANGED <<file, expenses, monthly_income, currency>>

Choice7 ==
    /\ pc = "menu"
    /\ get_monthly_breakdown
    /\ pc' = "pause"
    /\ UNCHANGED <<file0, now>>

\* choice == '8'
Choice8 ==
    /\ pc = "menu"
    /\ \E text \in KeywordTexts :
        LET keyword == strip(text) IN
        last' = IF keyword # <<>>
                THEN Call("search_expenses", keyword, search_expenses(keyword))
                ELSE Ran(<<"8">>, "skipped")
    /\ pc' = "pause"
    /\ UNCHANGED <<file, file0, expenses, monthly_income, currency, now>>

\* choice == '9': the number entered counts from 1.  With no expenses the
\* loop continues at the menu without the pause.
Choice9 ==
    /\ pc = "menu"
    /\ \E text \in NumberTexts :
        LET parsed == int(text) IN
        IF expenses = <<>> \/ parsed.err
        THEN /\ last' = Ran(<<"9">>, IF expenses = <<>> THEN "No expenses to delete"
                                     ELSE "ValueError")
             /\ UNCHANGED <<file, expenses, monthly_income, currency>>
        ELSE delete_expense(parsed.val - 1)
    /\ pc' = IF expenses = <<>> THEN "menu" ELSE "pause"
    /\ UNCHANGED <<file0, now>>

\* choice == '10', up to the first text entered at the prompt of set_currency
Choice10 ==
    /\ pc = "menu"
    /\ \E text \in CurrencyTexts : set_currency(text)
    /\ UNCHANGED <<file0, now>>

\* the prompt of set_currency again, after an invalid code
CurrencyPrompt ==
    /\ pc = "set_currency"
    /\ \E text \in CurrencyTexts : set_currency(text)
    /\ UNCHANGED <<file0, now>>

\* choice == '11'
Choice11 ==
    /\ pc = "menu"
    /\ \E outcome \in SaveOutcomes : save_data(outcome)
    /\ pc' = "exited"
    /\ UNCHANGED <<file0, now>>

\* choice == '12': the confirmation is lower-cased, not stripped
Choice12 ==
    /\ pc = "menu"
    /\ \E confirm \in ConfirmTexts :
        /\ last' = Ran(<<"1","2">>, confirm)
        /\ pc' = IF lower(confirm) \in { <<"y">>, <<"y","e","s">> } THEN "exited"
                 ELSE "pause"
    /\ UNCHANGED <<file, file0, expenses, monthly_income, currency, now>>

\* any other choice
ChoiceOther ==
    /\ pc = "menu"
    /\ last' = Ran(<<"0">>, "Invalid choice")
    /\ pc' = "pause"
    /\ UNCHANGED <<file, file0, expenses, monthly_income, currency, now>>

\* input('Press Enter to continue...')
Continue ==
    /\ pc = "pause"
    /\ pc' = "menu"
    /\ last' = NoCall
    /\ UNCHANGED <<file, file0, expenses, monthly_income, currency, now>>

\* main(): KeyboardInterrupt, or any exception such as the EOFError of a
\* closed input, at a prompt ends the process without saving.
Interrupt ==
    /\ pc \in {"menu", "set_currency", "pause"}
    /\ pc' = "exited"
    /\ last' = Call("main", <<>>, "interrupted")
    /\ UNCHANGED <<file, file0, expenses, monthly_income, currency, now>>

\* Time passes while the process waits at the menu.
Tick ==
    /\ pc = "menu"
    /\ now < Len(Instants)
    /\ now' = now + 1
    /\ last' = NoCall
    /\ UNCHANGED <<file, file0, pc, expenses, monthly_income, currency>>

Next ==
    \/ Choice1 \/ Choice2 \/ Choice3 \/ Choice4 \/ Choice5 \/ Choice6
    \/ Choice7 \/ Choice8 \/ Choice9 \/ Choice10 \/ CurrencyPrompt
    \/ Choice11 \/ Choice12 \/ ChoiceOther \/ Continue \/ Interrupt \/ Tick

Spec == Init /\ [][Next]_vars

----------------------------------------------------------------------------
(* Vocabulary of the properties *)

\* The sum of the amounts of the records at the positions I, in any order.
RECURSIVE SumAt(_)
SumAt(I) ==
    IF I = {} THEN Zero
    ELSE LET i == CHOOSE i \in I : TRUE
         IN FAdd(expenses[i].amount, SumAt(I \ {i}))

\* The positions of the records dated in the current month.
ThisMonth ==
    {i \in DOMAIN expenses :
        expenses[i].date[1] = Instants[now][1] /\ expenses[i].date[2] = Instants[now][2]}

\* The greater of 0 and x, 0 when x is not greater than 0.
AtLeastZero(x) == IF FGt(x, Zero) THEN x ELSE Zero

\* A text that float() reads as a number greater than 0.
IsPositiveNumber(text) ==
    LET parsed == float(text)
    IN ~parsed.err /\ ~IsNaN(parsed.val) /\ FGt(parsed.val, Zero)

Categories == {expenses[i].category : i \in DOMAIN expenses}
FirstAt(category) ==
    CHOOSE i \in DOMAIN expenses :
        /\ expenses[i].category = category
        /\ \A j \in 1..(i - 1) : expenses[j].category # category
SumOfCategory(category) ==
    SumAt({i \in DOMAIN expenses : expenses[i].category = category})

\* The code point of a character of a category name.
CodePoint(c) ==
    IF IsUpper(c) THEN 64 + IndexIn(c, UpperCase)
    ELSE IF IsLower(c) THEN 96 + IndexIn(c, LowerCase) ELSE 32

\* a < b for two str
RECURSIVE StrLt(_, _)
StrLt(a, b) ==
    IF b = <<>> THEN FALSE
    ELSE IF a = <<>> THEN TRUE
    ELSE IF Head(a) # Head(b) THEN CodePoint(Head(a)) < CodePoint(Head(b))
    ELSE StrLt(Tail(a), Tail(b))

\* The run began with an empty ledger.
StartedEmpty == file0.kind \in {"missing", "garbage"}

Dashboard == last.op = "show_financial_dashboard"

----------------------------------------------------------------------------
(* Properties *)

\* C1 (as amended): whatever the records, the monthly income and the current
\* month, the summary the dashboard computes has total_expenses = the sum of
\* all amounts, monthly_expenses = the sum of the amounts dated in the
\* current month, net_balance = monthly_income - monthly_expenses,
\* required_income = total_expenses, additional_income_needed = max(0,
\* monthly_expenses - monthly_income) and monthly_savings = max(0,
\* net_balance); on an empty ledger total_expenses, monthly_expenses and
\* required_income are zero, net_balance = monthly_income,
\* additional_income_needed = max(0, -monthly_income) and monthly_savings =
\* max(0, monthly_income).
C1_SummaryFormulas ==
    Dashboard =>
        LET s == last.ret.summary
            month == SumAt(ThisMonth)
        IN /\ s.total_expenses = SumAt(DOMAIN expenses)
           /\ s.monthly_expenses = month
           /\ s.net_balance = FSub(monthly_income, month)
           /\ s.required_income = SumAt(DOMAIN expenses)
           /\ s.additional_income_needed = AtLeastZero(FSub(month, monthly_income))
           /\ s.monthly_savings = AtLeastZero(FSub(monthly_income, month))
           /\ expenses = <<>> =>
                /\ s.total_expenses = Zero /\ s.monthly_expenses = Zero
                /\ s.required_income = Zero
                /\ s.net_balance = monthly_income
                /\ s.additional_income_needed = AtLeastZero(FNeg(monthly_income))
                /\ s.monthly_savings = AtLeastZero(monthly_income)

\* C1 (as claimed): on an empty ledger every value of the summary is zero
\* except net_balance, which is monthly_income.
C1_EmptyLedgerAllZero ==
    (Dashboard /\ expenses = <<>>) =>
        LET s == last.ret.summary
        IN /\ s.total_expenses = Zero /\ s.monthly_expenses = Zero
           /\ s.required_income = Zero
           /\ s.additional_income_needed = Zero
           /\ s.monthly_savings = Zero
           /\ s.net_balance = monthly_income

\* C1 witness: the dashboard of a ledger with a record of an earlier month
\* and a record of this month, under a negative income.
C1_Witness ==
    /\ Dashboard
    /\ Len(expenses) = 2
    /\ Cardinality(ThisMonth) = 1
    /\ FLt(monthly_income, Zero)
    /\ FGt(last.ret.summary.additional_income_needed, Zero)
    /\ last.ret.summary.total_expenses # last.ret.summary.monthly_expenses

\* C2: add_expense with an amount that is not a positive number, or with a
\* category that is empty after trimming, returns False and leaves the
\* records, the monthly income and the currency as they were.
C2_InvalidAddRejected ==
    [][(pc = "menu" /\ last'.op = "add_expense"
          /\ (~IsPositiveNumber(last'.arg[1]) \/ strip(last'.arg[2]) = <<>>))
        => (/\ last'.ret = FALSE
            /\ expenses' = expenses
            /\ monthly_income' = monthly_income
            /\ currency' = currency)]_vars

\* C3: in every state reached from an empty ledger, every record has a
\* stored amount strictly greater than 0 and a non-empty category.
C3_RecordsPositive ==
    StartedEmpty =>
        \A i \in DOMAIN expenses :
            /\ FGt(expenses[i].amount, Zero)
            /\ expenses[i].category # <<>>

\* C4: delete_expense(index) with 0 <= index < len(records) removes exactly
\* the record at that position, the others keeping their order and the later
\* ones moving down by one; with any other index, negative ones included, it
\* returns False and leaves the records as they were.
C4_DeleteByPosition ==
    [][(pc = "menu" /\ last'.op = "delete_expense")
        => LET index == last'.arg
               n == Len(expenses)
           IN IF 0 <= index /\ index < n
              THEN /\ last'.ret = TRUE
                   /\ Len(expenses') = n - 1
                   /\ \A j \in 1..(n - 1) :
                        expenses'[j] = IF j <= index THEN expenses[j] ELSE expenses[j + 1]
              ELSE /\ last'.ret = FALSE
                   /\ expenses' = expenses]_vars

\* C4 witness: the first of two records has been deleted, and the second is
\* now the first.
C4_Witness ==
    /\ last.op = "delete_expense"
    /\ last.arg = 0
    /\ last.ret = TRUE
    /\ Len(expenses) = 1
    /\ expenses[1].category = <<"R","e","n","t">>

\* C5 (as amended): the category summary lists one row for each distinct
\* category, with the sum of that category's amounts; when no sum is nan the
\* rows are in descending order of amount, and rows of equal amount are in
\* the order in which their categories first appear in the ledger.
C5_StableDescending ==
    last.op = "get_category_summary" =>
        LET rows == last.ret IN
        /\ Len(rows) = Cardinality(Categories)
        /\ \A c \in Categories :
             \E i \in DOMAIN rows : rows[i] = <<c, SumOfCategory(c)>>
        /\ (\A i \in DOMAIN rows : ~IsNaN(rows[i][2])) =>
             \A i, j \in DOMAIN rows :
                i < j => \/ FGt(rows[i][2], rows[j][2])
                         \/ /\ rows[i][2] = rows[j][2]
                            /\ FirstAt(rows[i][1]) < FirstAt(rows[j][1])

\* C5 (as claimed), on the ledgers whose sums are all numbers: rows of equal
\* amount are in ascending order of category name.
C5_TiesByName ==
    last.op = "get_category_summary" =>
        LET rows == last.ret IN
        (\A i \in DOMAIN rows : ~IsNaN(rows[i][2])) =>
             \A i, j \in DOMAIN rows :
                i < j => \/ FGt(rows[i][2], rows[j][2])
                         \/ /\ rows[i][2] = rows[j][2]
                            /\ StrLt(rows[i][1], rows[j][1])

\* C5 witness: a summary of two categories of equal amount, the one entered
\* first listed first although its name is the greater.
C5_Witness ==
    /\ last.op = "get_category_summary"
    /\ Len(last.ret) = 2
    /\ last.ret[1][2] = last.ret[2][2]
    /\ FGt(last.ret[1][2], Zero)
    /\ StrLt(last.ret[2][1], last.ret[1][1])
    /\ expenses[1].category = last.ret[1][1]

\* C6: whenever the data file is missing, unreadable or holds no parsable
\* ledger object (valid JSON that is not an object included), construction
\* completes with expenses = [], monthly_income = 0 and currency = "USD".
C6_StartNeverFails ==
    (/\ last.op = "__init__"
     /\ \/ file0.kind \in {"missing", "unreadable", "garbage"}
        \/ file0.doc.t # "obj")
    => /\ pc # "crashed"
       /\ last.ret = "none"
       /\ expenses = <<>>
       /\ monthly_income = Zero
       /\ currency = USD

\* C7: after a successful save_data, a tracker constructed from the file has
\* the same records in the same order, the same monthly income and the same
\* currency code.
C7_SaveLoadRoundTrip ==
    (last.op = "save_data" /\ last.ret = "saved") =>
        LET c == Construct(file)
        IN /\ c.err = "none"
           /\ c.expenses = expenses
           /\ c.monthly_income = monthly_income
           /\ c.currency = currency

\* C7 witness: a ledger of two records, one of amount nan, with a non-zero
\* income and a currency other than the default, has been saved.
C7_Witness ==
    /\ last.op = "save_data" /\ last.ret = "saved"
    /\ Len(expenses) = 2
    /\ \E i \in DOMAIN expenses : IsNaN(expenses[i].amount)
    /\ monthly_income = Inf(1)
    /\ currency = <<"E","U","R">>

\* C8 (as amended): a turn of set_currency with a non-empty code that is not
\* in the known set leaves the currency as it was and asks again; the
\* currency changes only to a code of the known set; a currency outside the
\* known set (read from the data file) is displayed as the code followed by
\* a space.
C8_UnknownCodeRejected ==
    [][(pc \in {"menu", "set_currency"} /\ last'.op = "set_currency")
        => LET code == upper(strip(last'.arg)) IN
           /\ (code # <<>> /\ code \notin KnownCurrencies)
                => (currency' = currency /\ pc' = "set_currency")
           /\ currency' # currency => (currency' = code /\ code \in KnownCurrencies)
           /\ currency' \notin KnownCurrencies
                => SymbolOf(currency') = currency' \o <<" ">>]_vars

\* C8 (as claimed): after set_currency with an unknown non-empty code the
\* currency is that code.
C8_UnknownCodeAccepted ==
    last.op = "set_currency" =>
        LET code == upper(strip(last.arg)) IN
        (code # <<>> /\ code \notin KnownCurrencies) => currency = code

\* C8 witness: an unknown code has been entered and refused, the currency
\* being a known one.
C8_Witness ==
    /\ last.op = "set_currency"
    /\ last.ret = "invalid"
    /\ pc = "set_currency"
    /\ currency = <<"E","U","R">>

\* C9: the dashboard never takes both the overspending branch (net_balance <
\* 0) and the savings branch (monthly_savings > 0); whenever it takes the
\* savings branch monthly_income > 0, so the savings rate never divides by
\* zero.
C9_SavingsRateDefined ==
    Dashboard =>
        LET s == last.ret.summary
            advice == last.ret.advice
        IN /\ ~(FLt(s.net_balance, Zero) /\ FGt(s.monthly_savings, Zero))
           /\ advice.branch = "savings" => FGt(monthly_income, Zero)
           /\ advice.err = "none"
           /\ pc # "crashed"

\* C9 witness: the dashboard took the savings branch with expenses recorded
\* in the current month.
C9_Witness ==
    /\ Dashboard
    /\ last.ret.advice.branch = "savings"
    /\ FGt(last.ret.summary.monthly_expenses, Zero)
    /\ monthly_income.k = "fin"

\* C10: the data file is written only by Save & Exit: in every state not
\* reached through save_data, whatever was done to the ledger in memory, the
\* file is as it was when the process started; so it is after a confirmed
\* exit without saving.
C10_WrittenOnlyOnSave ==
    last.op # "save_data" => file = file0

\* C10 witness: the process has exited through a confirmed choice 12 with a
\* ledger in memory that differs from the one loaded at the start.
C10_Witness ==
    /\ pc = "exited"
    /\ last.op = "run"
    /\ last.arg = <<"1","2">>
    /\ expenses # Construct(file0).expenses
    /\ monthly_income # Construct(file0).monthly_income
    /\ file = file0

====
